---- MODULE Spec2Model ----
(***************************************************************************)
(* goosey honk: the orchestration engine of src/goosey/honk.py.            *)
(*                                                                         *)
(* main() reads the credential file, checks the output directories, builds *)
(* the enablement matrix data_calls (parse_config) and runs run() under    *)
(* asyncio.run; run() creates the shared aiohttp session, routes the       *)
(* credentials, builds the dumpers, collects the units of work and awaits  *)
(* them with asyncio.gather inside "async with session".                   *)
(*                                                                         *)
(* Names (attribute names, operation names, credential keys) are sequences *)
(* of tokens, so that startswith, replace and the substring test "in" are  *)
(* computed rather than assumed.                                           *)
(***************************************************************************)
EXTENDS Integers, Sequences, FiniteSets, TLC

VARIABLES
    pc,          \* position of main()/run()
    args,        \* argparse namespace: azure, ad, m365, mde, dry_run
    authfile,    \* the credential file on disk: "missing", "unreadable", "malformed", "ok"
    auth,        \* the credential store: [mfa, app_auth], each a sequence of <<key, record>>
    configfile,  \* the configuration file: "parsed", or "rejected" by configparser
    conf,        \* the parsed configuration: section -> [exists, items]
    data_calls,  \* the global enablement matrix: section -> (name -> BOOLEAN)
    session,     \* the aiohttp.ClientSession: "none", "open", "closed"
    closes,      \* how many times the session has been closed
    locals,      \* run()'s credential locals; "UNBOUND" when never assigned
    dumpers,     \* run()'s dumper variables -> class of the object bound to them
    tasks,       \* unit of work -> "created", "running", "done", "failed", "cancelled"
    failOrder,   \* the failed units of work, in the order they failed
    runResult,   \* how run() ended: "none", "ok", or the error it raised
    reported,    \* the "executed in ... seconds" line was logged
    before,      \* data_calls as the last parse_config call found it
    disk,        \* the output directories that exist
    effects      \* the external effects performed so far: "makedirs", "token_refresh"

vars == <<pc, args, authfile, auth, configfile, conf, data_calls, session, closes, locals,
          dumpers, tasks, failOrder, runResult, reported, before, disk, effects>>

(***************************************************************************)
(* Bounds of the model.                                                    *)
(***************************************************************************)
\* the number of option entries a generated configuration holds, over all sections
MaxEntries == 2
\* the number of units of work a generated run may launch
MaxTasks == 4
\* the number of keys a generated credential store holds, over both mappings
MaxKeys == 3

(***************************************************************************)
(* The dumper classes and their catalogs.                                  *)
(***************************************************************************)
sections == <<"azure", "m365", "azuread", "mde">>

Sections == {sections[i] : i \in 1..Len(sections)}

\* dir(cls) of the four dumper classes: the dump_* methods plus what every
\* dumper inherits
DumperAttrs(cls) ==
    {<<"__init__">>, <<"data_dump">>} \cup
    CASE cls = "AzureDataDumper"   -> {<<"dump_", "subscriptions">>}
      [] cls = "M365DataDumper"    -> {<<"dump_", "ual">>}
      [] cls = "AzureAdDataDumper" -> {<<"dump_", "users">>, <<"dump_", "groups">>}
      [] cls = "MDEDataDumper"     -> {<<"dump_", "alerts">>, <<"dump_", "machines">>}
      [] OTHER                     -> {}

\* x.startswith('dump_')
StartsWithDump(x) == Len(x) >= 1 /\ x[1] = "dump_"

NotDumpToken(t) == t # "dump_"

\* x.replace('dump_', ''): every occurrence is removed, not only the prefix
ReplaceDump(x) == SelectSeq(x, NotDumpToken)

\* [x.replace('dump_', '') for x in dir(cls) if x.startswith('dump_')]
CatalogItems(cls) == {ReplaceDump(x) : x \in {y \in DumperAttrs(cls) : StartsWithDump(y)}}

\* the override flag, the section and the class of the four "if args.X" blocks
Overrides ==
    { [flag |-> "azure", section |-> "azure",   cls |-> "AzureDataDumper"],
      [flag |-> "ad",    section |-> "azuread", cls |-> "AzureAdDataDumper"],
      [flag |-> "m365",  section |-> "m365",    cls |-> "M365DataDumper"],
      [flag |-> "mde",   section |-> "mde",     cls |-> "MDEDataDumper"] }

OverrideOf(s) == CHOOSE o \in Overrides : o.section = s

(***************************************************************************)
(* parse_config                                                            *)
(***************************************************************************)
\* str.lower() on the option values the model draws
Lower(v) ==
    CASE v = "True" -> "true"
      [] v = "TRUE" -> "true"
      [] v = "Yes"  -> "yes"
      [] OTHER      -> v

EmptyDict == [k \in {} |-> TRUE]

\* config.items(s) raises: NoSectionError for a missing section
ItemsRaises(config, s) == ~config[s].exists

_get_section_dict(config, s) ==
    IF ItemsRaises(config, s)
    THEN EmptyDict
    ELSE [k \in DOMAIN config[s].items |-> Lower(config[s].items[k]) = "true"]

SectionEntriesKeepFalse(d) == d

\* data_calls[section] = {} ; for key in d: if d[key]: data_calls[section][key] = True
SectionEntries(d) == [k \in {x \in DOMAIN d : d[x]} |-> TRUE]

ApplyOverrideReplace(entry, a, o) ==
    IF a[o.flag]
    THEN [k \in CatalogItems(o.cls) |-> TRUE]
    ELSE entry

\* if args.X: for item in [...]: data_calls[section][item] = True
ApplyOverride(entry, a, o) ==
    IF a[o.flag]
    THEN [k \in DOMAIN entry \cup CatalogItems(o.cls) |->
             IF k \in CatalogItems(o.cls) THEN TRUE ELSE entry[k]]
    ELSE entry

\* line 151: config.read(configfile) is outside every try; it raises for a file
\* configparser rejects (a line before the first section header, a duplicated
\* section or option)
ReadRaises(file) == file = "rejected"

ParsedSectionsConfigured(config) == {s \in Sections : config[s].exists}

\* lines 153-155: for section in sections, whatever the file holds
ParsedSections(config) == Sections

EntryKept(old) == old

\* line 157: data_calls[section] = {}
EntryAfterReset(old) == EmptyDict

\* the entry of a section in the global before the call
OldEntry(calls, s) == IF s \in DOMAIN calls THEN calls[s] ELSE EmptyDict

\* lines 158-160: the stores into the entry line 157 left
Merge(base, add) ==
    [k \in DOMAIN base \cup DOMAIN add |-> IF k \in DOMAIN add THEN add[k] ELSE base[k]]

\* the value of the global data_calls after parse_config(configfile, args) has
\* returned, when it held calls before
ParseConfigOn(calls, config, a) ==
    [s \in DOMAIN calls \cup ParsedSections(config) |->
        IF s \in ParsedSections(config)
        THEN ApplyOverride(Merge(EntryAfterReset(OldEntry(calls, s)),
                                 SectionEntries(_get_section_dict(config, s))),
                           a, OverrideOf(s))
        ELSE calls[s]]

\* the same in a fresh process: data_calls = {} at module load
ParseConfigResult(config, a) == ParseConfigOn([s \in {} |-> EmptyDict], config, a)

(***************************************************************************)
(* The inputs the model draws.                                             *)
(***************************************************************************)
Values == {"true", "True", "false", "maybe"}

\* the option names a generated section may hold: the provider's operations
\* and one name no dumper has
ConfKeys(s) == CatalogItems(OverrideOf(s).cls) \cup {<<"unknown">>}

AllEntries == UNION {{<<s, k, v>> : k \in ConfKeys(s), v \in Values} : s \in Sections}

RECURSIVE EntrySets(_)
EntrySets(n) ==
    IF n = 0
    THEN {{}}
    ELSE LET P == EntrySets(n - 1)
         IN  P \cup UNION {{E \cup {e} :
                              e \in {x \in AllEntries :
                                       \A y \in E : ~(y[1] = x[1] /\ y[2] = x[2])}} :
                           E \in P}

\* the entry sets of the generated configurations
ConfEntrySets == EntrySets(MaxEntries)

\* the ConfigParser holding the entries E, without the sections of absent
ConfOf(E, absent) ==
    [s \in Sections |->
        [exists |-> s \notin absent,
         items  |-> [k \in {e[2] : e \in {x \in E : x[1] = s}} |->
                        (CHOOSE e \in E : e[1] = s /\ e[2] = k)[3]]]]

\* the sections a configuration with the entries E lacks: none (every section
\* has its header), or every section that holds no entry
AbsentChoices(E) == {{}, {s \in Sections : \A e \in E : e[1] # s}}

Flags == [azure : BOOLEAN, ad : BOOLEAN, m365 : BOOLEAN, mde : BOOLEAN, dry_run : BOOLEAN]

NoAuth == [mfa |-> <<>>, app_auth |-> <<>>]

NoLocals ==
    [msft_graph_auth |-> <<"UNBOUND">>, msft_graph_app_auth |-> <<"UNBOUND">>,
     mgmt_app_auth |-> <<"UNBOUND">>, msft_security_center_auth |-> <<"UNBOUND">>]

NoTasks == [u \in {} |-> "created"]

\* module load: data_calls = {}
NoCalls == [s \in {} |-> EmptyDict]

(***************************************************************************)
(* main(): config = parse_config(args.config, args)                        *)
(***************************************************************************)
\* line 213; before keeps what the global held when the call began
ParseConfig ==
    /\ pc = "parse"
    /\ before' = data_calls
    /\ IF ReadRaises(configfile)
       THEN /\ data_calls' = data_calls
            /\ pc' = "raised"
       ELSE /\ data_calls' = ParseConfigOn(data_calls, conf, args)
            /\ pc' = "run"
    /\ UNCHANGED <<args, configfile, authfile, auth, conf, session, closes, locals, dumpers,
                   tasks, failOrder, runResult, reported, disk, effects>>

(***************************************************************************)
(* main(): the credential file and the output directories                  *)
(***************************************************************************)
\* keys of the credential store, as the parts the substring tests look at
KeyGraphCom == <<"https://", "graph.microsoft.com", "/.default">>
KeyGraphUs  == <<"https://", "graph.microsoft.us", "/.default">>
KeyMgmt     == <<"https://", "management.azure.com", "/.default">>
KeySecurity == <<"https://", "api.securitycenter.microsoft.com", "/.default">>
KeyOther    == <<"https://", "outlook.office365.com", "/.default">>
KeyMgmtUser == <<"https://", "management.azure.com", "/user_impersonation">>

FullStore ==
    [mfa      |-> << <<KeyGraphCom, <<"mfa_graph">> >>, <<KeyOther, <<"mfa_outlook">> >> >>,
     app_auth |-> << <<KeyGraphCom, <<"app_graph">> >>, <<KeyMgmt, <<"app_mgmt">> >>,
                     <<KeySecurity, <<"app_security">> >> >>]

\* the credential files the runs read
AuthStores ==
    { FullStore,
      [FullStore EXCEPT !.app_auth = << <<KeyGraphUs, <<"app_graph_us">> >>,
                                        <<KeySecurity, <<"app_security">> >> >>],
      [FullStore EXCEPT !.app_auth = << <<KeyGraphCom, <<"app_graph">> >>,
                                        <<KeyMgmt, <<"app_mgmt">> >> >>],
      [FullStore EXCEPT !.mfa = << <<KeyGraphUs, <<"mfa_graph_us", "expired">> >> >>],
      NoAuth }

AuthOutcomeContinues(file) == "dirs"

\* lines 194-205: a missing file exits (sys.exit(1)), one that cannot be opened
\* or is not JSON re-raises (raise e), a good one lets main() go on
AuthOutcome(file) ==
    IF file = "missing" THEN "exited"
    ELSE IF file \in {"unreadable", "malformed"} THEN "raised"
    ELSE "dirs"

ReadAuth ==
    /\ pc = "auth"
    /\ pc' = AuthOutcome(authfile)
    /\ auth' \in (IF authfile = "ok" THEN AuthStores ELSE {auth})
    /\ UNCHANGED <<args, configfile, authfile, conf, data_calls, session, closes, locals, dumpers,
                   tasks, failOrder, runResult, reported,
                   before, disk, effects>>

\* lines 207-212: the directories main() checks, with the default --output-dir
\* and --reports-dir
OutputDirs ==
    {"output", "reports", "output/azure", "output/m365", "output/azuread", "output/mde"}

\* goosey.utils.check_output_dir: a directory that does not exist is created
check_output_dir(d, dir) == d \cup {dir}

\* lines 207-212: the six check_output_dir calls, whatever --dry-run says
CheckOutputDirs ==
    /\ pc = "dirs"
    /\ disk' = UNION {check_output_dir(disk, dir) : dir \in OutputDirs}
    /\ effects' = effects \cup (IF disk' # disk THEN {"makedirs"} ELSE {})
    /\ pc' = "parse"
    /\ UNCHANGED <<args, configfile, authfile, auth, conf, data_calls, session, closes, locals,
                   dumpers, tasks, failOrder, runResult, reported, before>>

(***************************************************************************)
(* run(): session, credential routing, token check, dumpers                *)
(***************************************************************************)
\* line 100: session = aiohttp.ClientSession()
CreateSession ==
    /\ pc = "run"
    /\ session' = "open"
    /\ pc' = "route"
    /\ UNCHANGED <<args, configfile, authfile, auth, conf, data_calls, closes, locals, dumpers,
                   tasks, failOrder, runResult, reported,
                   before, disk, effects>>

\* host in key
KeyContains(key, host) == \E i \in 1..Len(key) : key[i] = host

GraphHostsCommercialOnly == {"graph.microsoft.com"}

\* lines 106 and 110
GraphHosts == {"graph.microsoft.com", "graph.microsoft.us"}

ScanKeysFirst(mapping, hosts, var) ==
    LET hits == {i \in 1..Len(mapping) : \E h \in hosts : KeyContains(mapping[i][1], h)}
    IN  IF hits = {} THEN var
        ELSE mapping[CHOOSE i \in hits : \A j \in hits : i <= j][2]

\* for key in mapping: if <one of hosts> in key: var = mapping[key]
RECURSIVE ScanKeys(_, _, _)
ScanKeys(mapping, hosts, var) ==
    IF mapping = <<>>
    THEN var
    ELSE ScanKeys(Tail(mapping), hosts,
                  IF \E h \in hosts : KeyContains(Head(mapping)[1], h)
                  THEN Head(mapping)[2]
                  ELSE var)

\* lines 102-115: the four locals after the two loops
RoutedLocals(a) ==
    [msft_graph_auth           |-> ScanKeys(a.mfa, GraphHosts, <<"{}">>),
     msft_graph_app_auth       |-> ScanKeys(a.app_auth, GraphHosts, <<"{}">>),
     mgmt_app_auth             |-> ScanKeys(a.app_auth, {"management.azure.com"}, <<"UNBOUND">>),
     msft_security_center_auth |-> ScanKeys(a.app_auth, {"api.securitycenter.microsoft.com"},
                                            <<"UNBOUND">>)]

RouteCredentials ==
    /\ pc = "route"
    /\ locals' = RoutedLocals(auth)
    /\ pc' = "check_token"
    /\ UNCHANGED <<args, configfile, authfile, auth, conf, data_calls, session, closes, dumpers,
                   tasks, failOrder, runResult, reported,
                   before, disk, effects>>

\* goosey.auth.check_token: the record after the validity/refresh check
check_token(record) == <<"check_token">> \o record

\* goosey.auth.check_token: an expired record is refreshed over the network
TokenRefreshes(record) == \E i \in 1..Len(record) : record[i] = "expired"

\* line 117, whatever --dry-run says
CheckedLocalsBothGraph(l) ==
    [l EXCEPT !.msft_graph_auth = check_token(l.msft_graph_auth),
              !.msft_graph_app_auth = check_token(l.msft_graph_app_auth)]

\* line 117: msft_graph_auth = check_token(config, msft_graph_auth, logger)
CheckedLocals(l) == [l EXCEPT !.msft_graph_auth = check_token(l.msft_graph_auth)]

CheckToken ==
    /\ pc = "check_token"
    /\ locals' = CheckedLocals(locals)
    /\ effects' = effects \cup (IF TokenRefreshes(locals.msft_graph_auth)
                                THEN {"token_refresh"} ELSE {})
    /\ pc' = "construct"
    /\ UNCHANGED <<args, configfile, authfile, auth, conf, data_calls, session, closes, dumpers,
                   tasks, failOrder, runResult, reported, before, disk>>

Unbound(v) == locals[v] = <<"UNBOUND">>

Dumper(cls, creds) == [cls |-> cls, creds |-> creds]

NoDumper == Dumper("none", <<>>)

NoDumpers ==
    [maindumper |-> NoDumper, m365dumper |-> NoDumper, azureaddumper |-> NoDumper,
     azure_dumper |-> NoDumper, mdedumper |-> NoDumper]

\* line 119
MainDumper == Dumper("DataDumper", <<locals.msft_graph_auth, locals.msft_graph_app_auth>>)

UsesDefaultCollectorNever == FALSE

\* line 120: if args.dry_run
UsesDefaultCollector == args.dry_run

\* the locals line 128 and line 129 read
ConstructReads ==
    [azure_dumper |-> {"mgmt_app_auth"}, mdedumper |-> {"msft_security_center_auth"}]

\* lines 119-129: the dumper variables after construction; a read of a local no
\* loop iteration assigned raises UnboundLocalError and leaves the later ones unset
ConstructedDumpers ==
    IF UsesDefaultCollector
    THEN [maindumper |-> MainDumper, m365dumper |-> MainDumper, azureaddumper |-> MainDumper,
          azure_dumper |-> MainDumper, mdedumper |-> MainDumper]
    ELSE LET azureFails == \E v \in ConstructReads.azure_dumper : Unbound(v)
             mdeFails   == \E v \in ConstructReads.mdedumper : Unbound(v)
         IN  [maindumper    |-> MainDumper,
              m365dumper    |-> Dumper("M365DataDumper",
                                       <<locals.msft_graph_auth, locals.msft_graph_app_auth>>),
              azureaddumper |-> Dumper("AzureAdDataDumper",
                                       <<locals.msft_graph_auth, locals.msft_graph_app_auth>>),
              azure_dumper  |-> IF azureFails THEN NoDumper
                                ELSE Dumper("AzureDataDumper", <<locals.mgmt_app_auth>>),
              mdedumper     |-> IF azureFails \/ mdeFails THEN NoDumper
                                ELSE Dumper("MDEDataDumper",
                                            <<locals.msft_graph_auth,
                                              locals.msft_security_center_auth>>)]

NoResult == [kind |-> "none", by |-> {}]

Construct ==
    /\ pc = "construct"
    /\ dumpers' = ConstructedDumpers
    /\ IF \E v \in DOMAIN dumpers' : dumpers'[v] = NoDumper
       THEN /\ runResult' = [kind |-> "UnboundLocalError", by |-> {}]
            /\ pc' = "teardown"
       ELSE /\ runResult' = runResult
            /\ pc' = "enter"
    /\ UNCHANGED <<args, configfile, authfile, auth, conf, data_calls, session, closes, locals,
                   tasks, failOrder, reported,
                   before, disk, effects>>

(***************************************************************************)
(* run(): the units of work, asyncio.gather, the end of "async with"       *)
(***************************************************************************)
\* DataDumper.data_dump(calls): one unit of work for each name of calls
data_dump(dumper, calls) == {[cls |-> dumper.cls, op |-> o] : o \in DOMAIN calls}

PlanCallsCrossed ==
    { [dumper |-> "azure_dumper",  calls |-> "m365"],
      [dumper |-> "m365dumper",    calls |-> "azure"],
      [dumper |-> "azureaddumper", calls |-> "azuread"],
      [dumper |-> "mdedumper",     calls |-> "mde"] }

\* lines 134-137: which dumper is asked with which entry of data_calls
PlanCalls ==
    { [dumper |-> "azure_dumper",  calls |-> "azure"],
      [dumper |-> "m365dumper",    calls |-> "m365"],
      [dumper |-> "azureaddumper", calls |-> "azuread"],
      [dumper |-> "mdedumper",     calls |-> "mde"] }

\* lines 133-137: the list tasks
LaunchedTasks(ds, calls) ==
    UNION {{[provider |-> c.calls, dumper |-> c.dumper, cls |-> w.cls, op |-> w.op] :
              w \in data_dump(ds[c.dumper], calls[c.calls])} :
           c \in PlanCalls}

\* lines 134-137: data_calls['azure'] and the like raise KeyError for a provider
\* the matrix has no entry for
LookupRaises(calls) == \E c \in PlanCalls : c.calls \notin DOMAIN calls

\* lines 131-139, up to the await: the session is entered, the units of work
\* are collected and run() suspends in gather
Launch ==
    /\ pc = "enter"
    /\ IF LookupRaises(data_calls)
       THEN /\ tasks' = tasks
            /\ runResult' = [kind |-> "KeyError", by |-> {}]
            /\ session' = "closed"
            /\ closes' = closes + 1
            /\ pc' = "teardown"
       ELSE /\ tasks' = [u \in LaunchedTasks(dumpers, data_calls) |-> "created"]
            /\ runResult' = runResult
            /\ session' = session
            /\ closes' = closes
            /\ pc' = "gather"
    /\ UNCHANGED <<args, configfile, authfile, auth, conf, data_calls, locals,
                   dumpers, failOrder, reported,
                   before, disk, effects>>

\* the event loop runs units of work while run() is suspended in gather, and in
\* the iterations it still makes after run() has ended
LoopRuns == pc \in {"gather", "teardown"}

Unfinished(st) == st \in {"created", "running"}

\* a unit of work runs up to an await on network I/O
StartUnit(u) ==
    /\ LoopRuns
    /\ tasks[u] = "created"
    /\ tasks' = [tasks EXCEPT ![u] = "running"]
    /\ UNCHANGED <<pc, args, configfile, authfile, auth, conf, data_calls, session, closes, locals,
                   dumpers, failOrder, runResult, reported,
                   before, disk, effects>>

\* a unit of work returns
FinishUnit(u) ==
    /\ LoopRuns
    /\ Unfinished(tasks[u])
    /\ tasks' = [tasks EXCEPT ![u] = "done"]
    /\ UNCHANGED <<pc, args, configfile, authfile, auth, conf, data_calls, session, closes, locals,
                   dumpers, failOrder, runResult, reported,
                   before, disk, effects>>

\* a unit of work of a real dumper raises; the units of the dry-run collector
\* do nothing and cannot
FailUnit(u) ==
    /\ LoopRuns
    /\ Unfinished(tasks[u])
    /\ u.cls # "DataDumper"
    /\ tasks' = [tasks EXCEPT ![u] = "failed"]
    /\ failOrder' = Append(failOrder, u)
    /\ UNCHANGED <<pc, args, configfile, authfile, auth, conf, data_calls, session, closes, locals,
                   dumpers, runResult, reported,
                   before, disk, effects>>

GatherOutcomeWaitAll(t, order) ==
    IF \A u \in DOMAIN t : ~Unfinished(t[u])
    THEN [kind |-> "ok", by |-> {}]
    ELSE NoResult

\* line 139: await asyncio.gather(*tasks), return_exceptions left False: the
\* first exception is raised to run() at once, else gather returns when all
\* units have returned; NoResult while run() stays suspended
GatherOutcome(t, order) ==
    IF order # <<>>
    THEN [kind |-> "error", by |-> {Head(order)}]
    ELSE IF \A u \in DOMAIN t : t[u] = "done"
         THEN [kind |-> "ok", by |-> {}]
         ELSE NoResult

\* lines 139 and 131: gather wakes run(), the "async with" block is left and
\* the session's __aexit__ closes it; run() returns or raises
GatherWakes ==
    /\ pc = "gather"
    /\ GatherOutcome(tasks, failOrder) # NoResult
    /\ runResult' = GatherOutcome(tasks, failOrder)
    /\ session' = "closed"
    /\ closes' = closes + 1
    /\ pc' = "teardown"
    /\ UNCHANGED <<args, configfile, authfile, auth, conf, data_calls, locals, dumpers, tasks,
                   failOrder, reported,
                   before, disk, effects>>

(***************************************************************************)
(* main(): asyncio.run and the elapsed-time report                         *)
(***************************************************************************)
\* line 217: asyncio.run, once run() has ended, cancels every task that is not
\* done and closes the loop; it returns, or re-raises what run() raised
CancelAll ==
    /\ pc = "teardown"
    /\ tasks' = [u \in DOMAIN tasks |->
                    IF Unfinished(tasks[u]) THEN "cancelled" ELSE tasks[u]]
    /\ pc' = IF runResult.kind = "ok" THEN "report" ELSE "raised"
    /\ UNCHANGED <<args, configfile, authfile, auth, conf, data_calls, session, closes, locals,
                   dumpers, failOrder, runResult, reported,
                   before, disk, effects>>

\* lines 218-219
Report ==
    /\ pc = "report"
    /\ reported' = TRUE
    /\ pc' = "done"
    /\ UNCHANGED <<args, configfile, authfile, auth, conf, data_calls, session, closes, locals,
                   dumpers, tasks, failOrder, runResult,
                   before, disk, effects>>

(***************************************************************************)
(* Spec: main() from its start, on the configurations of RunConfigs.       *)
(***************************************************************************)
RunConfigs ==
    { ConfOf({}, {}),
      ConfOf({<<"azuread", <<"users">>, "true">>, <<"azuread", <<"groups">>, "false">>}, {}),
      ConfOf({<<"azure", <<"subscriptions">>, "True">>, <<"m365", <<"ual">>, "true">>},
             {"azuread", "mde"}),
      ConfOf({<<"mde", <<"unknown">>, "true">>, <<"mde", <<"alerts">>, "yes">>,
              <<"azure", <<"unknown">>, "true">>}, {}),
      ConfOf({<<"azure", <<"subscriptions">>, "true">>, <<"m365", <<"ual">>, "TRUE">>,
              <<"azuread", <<"groups">>, "true">>, <<"mde", <<"unknown">>, "true">>}, {}) }

\* the units of work parse_config and run() would make of a configuration
PlanSize(config, a) ==
    Cardinality(UNION {{<<s, k>> : k \in DOMAIN ParseConfigResult(config, a)[s]} :
                       s \in DOMAIN ParseConfigResult(config, a)})

Init ==
    /\ pc = "auth"
    /\ authfile \in {"missing", "unreadable", "malformed", "ok"}
    /\ \/ configfile = "parsed" /\ conf \in RunConfigs
       \/ configfile = "rejected" /\ conf = ConfOf({}, Sections)
    /\ args \in {a \in Flags : PlanSize(conf, a) <= MaxTasks}
    /\ auth = NoAuth
    /\ data_calls = NoCalls
    /\ session = "none"
    /\ closes = 0
    /\ locals = NoLocals
    /\ dumpers = NoDumpers
    /\ tasks = NoTasks
    /\ failOrder = <<>>
    /\ runResult = NoResult
    /\ reported = FALSE
    /\ before = NoCalls
    /\ disk \in {{}, OutputDirs}
    /\ effects = {}

Next ==
    \/ ReadAuth
    \/ CheckOutputDirs
    \/ ParseConfig
    \/ CreateSession
    \/ RouteCredentials
    \/ CheckToken
    \/ Construct
    \/ Launch
    \/ \E u \in DOMAIN tasks : StartUnit(u)
    \/ \E u \in DOMAIN tasks : FinishUnit(u)
    \/ \E u \in DOMAIN tasks : FailUnit(u)
    \/ GatherWakes
    \/ CancelAll
    \/ Report

Spec == Init /\ [][Next]_vars

(***************************************************************************)
(* SpecMatrix: parse_config on every generated configuration and flag set. *)
(***************************************************************************)
InitMatrix ==
    /\ pc = "parse"
    /\ args \in {a \in Flags : ~a.dry_run}
    /\ authfile = "ok"
    /\ auth = NoAuth
    /\ \/ /\ configfile = "parsed"
          /\ \E E \in ConfEntrySets : \E absent \in AbsentChoices(E) :
                conf = ConfOf(E, absent)
       \/ /\ configfile = "rejected"
          /\ conf = ConfOf({}, Sections)
    /\ data_calls = NoCalls
    /\ session = "none"
    /\ closes = 0
    /\ locals = NoLocals
    /\ dumpers = NoDumpers
    /\ tasks = NoTasks
    /\ failOrder = <<>>
    /\ runResult = NoResult
    /\ reported = FALSE
    /\ before = NoCalls
    /\ disk = OutputDirs
    /\ effects = {}

NextMatrix == ParseConfig

SpecMatrix == InitMatrix /\ [][NextMatrix]_vars

(***************************************************************************)
(* SpecRoute: the credential routing of run() on every generated store.    *)
(***************************************************************************)
StoreKeys == {KeyGraphCom, KeyGraphUs, KeyMgmt, KeyMgmtUser, KeySecurity, KeyOther}

\* the sequences of n different keys: a JSON object in the order of the file
RECURSIVE KeySeqs(_)
KeySeqs(n) ==
    IF n = 0
    THEN {<<>>}
    ELSE UNION {{Append(q, k) : k \in {x \in StoreKeys : \A i \in 1..Len(q) : q[i] # x}} :
                q \in KeySeqs(n - 1)}

\* the mapping of a flow-kind holding the keys q, each with a record of its own
MappingOf(flow, q) == [i \in 1..Len(q) |-> <<q[i], <<flow>> \o q[i]>>]

GeneratedStores ==
    UNION {UNION {{[mfa |-> MappingOf("mfa", q1), app_auth |-> MappingOf("app_auth", q2)] :
                     q1 \in KeySeqs(n1), q2 \in KeySeqs(n2)} :
                  n2 \in 0..(MaxKeys - n1)} :
           n1 \in 0..MaxKeys}

InitRoute ==
    /\ pc = "route"
    /\ args = [azure |-> FALSE, ad |-> FALSE, m365 |-> FALSE, mde |-> FALSE,
               dry_run |-> FALSE]
    /\ authfile = "ok"
    /\ auth \in GeneratedStores
    /\ configfile = "parsed"
    /\ conf = ConfOf({}, {})
    /\ data_calls = ParseConfigResult(conf, args)
    /\ session = "open"
    /\ closes = 0
    /\ locals = NoLocals
    /\ dumpers = NoDumpers
    /\ tasks = NoTasks
    /\ failOrder = <<>>
    /\ runResult = NoResult
    /\ reported = FALSE
    /\ before = NoCalls
    /\ disk = OutputDirs
    /\ effects = {}

NextRoute == RouteCredentials

SpecRoute == InitRoute /\ [][NextRoute]_vars

(***************************************************************************)
(* SpecReparse: parse_config called again and again in one process.        *)
(***************************************************************************)
InitReparse ==
    /\ pc = "parse"
    /\ args \in {a \in Flags : ~a.dry_run}
    /\ authfile = "ok"
    /\ auth = NoAuth
    /\ configfile = "parsed"
    /\ conf \in RunConfigs
    /\ data_calls = NoCalls
    /\ session = "none"
    /\ closes = 0
    /\ locals = NoLocals
    /\ dumpers = NoDumpers
    /\ tasks = NoTasks
    /\ failOrder = <<>>
    /\ runResult = NoResult
    /\ reported = FALSE
    /\ before = NoCalls
    /\ disk = OutputDirs
    /\ effects = {}

\* a caller holding the module calls parse_config(configfile, args) once more,
\* with another file and other flags; the global data_calls is as the last call
\* left it
NewInvocation ==
    /\ pc = "run"
    /\ pc' = "parse"
    /\ configfile' \in {"parsed", "rejected"}
    /\ conf' \in (IF configfile' = "rejected" THEN {ConfOf({}, Sections)} ELSE RunConfigs)
    /\ args' \in {a \in Flags : ~a.dry_run}
    /\ UNCHANGED <<authfile, auth, data_calls, session, closes, locals, dumpers, tasks,
                   failOrder, runResult, reported, before, disk, effects>>

NextReparse ==
    \/ ParseConfig
    \/ NewInvocation

SpecReparse == InitReparse /\ [][NextReparse]_vars

(***************************************************************************)
(* Claims about parse_config (checked under SpecMatrix).                   *)
(***************************************************************************)
\* the names a section of the configuration marks 'true', in any letter case
TruthyNames(s) ==
    {k \in DOMAIN conf[s].items : conf[s].items[k] \in {"true", "True", "TRUE"}}

NoOverride == ~args.azure /\ ~args.ad /\ ~args.m365 /\ ~args.mde

C2_EnabledIsTruthy ==
    /\ \A s \in DOMAIN data_calls : \A k \in DOMAIN data_calls[s] : data_calls[s][k] = TRUE
    /\ (pc = "run" /\ NoOverride) =>
          \A s \in Sections : DOMAIN data_calls[s] = TruthyNames(s)

\* parse_config has run without flags on a section holding 'True' and 'false'
C2_Witness ==
    /\ pc = "run"
    /\ NoOverride
    /\ \E s \in Sections : \E k1, k2 \in DOMAIN conf[s].items :
          /\ conf[s].items[k1] = "True"
          /\ conf[s].items[k2] = "false"
          /\ k1 \in DOMAIN data_calls[s]
          /\ k2 \notin DOMAIN data_calls[s]

(***************************************************************************)
(* Claims about main() and run() (checked under Spec).                     *)
(***************************************************************************)
RunEnded == runResult.kind # "none"

\* run() got as far as collecting the units of work
Launched == runResult.kind \in {"ok", "error"} \/ pc = "gather"

MainEnded == pc \in {"exited", "raised", "done"}

\* C3: when one of the launched units of work fails, no other unit is cancelled
\* or abandoned: each has completed or failed by itself when main() ends.
C3_SiblingsRunToCompletion ==
    failOrder # <<>> =>
        /\ \A u \in DOMAIN tasks : tasks[u] # "cancelled"
        /\ MainEnded => \A u \in DOMAIN tasks : tasks[u] \in {"done", "failed"}

\* C4: the session is open before the first unit of work starts and, in every
\* state, a closed session implies that every unit of work has completed or failed.
C4_SessionOutlivesUnits ==
    /\ (\E u \in DOMAIN tasks : tasks[u] # "created") => session # "none"
    /\ session = "closed" => \A u \in DOMAIN tasks : tasks[u] \in {"done", "failed"}

\* C5: a run() that created the session has closed it exactly once when it ends,
\* on every path, a failure before the "async with" block included.
C5_SessionClosedOnce ==
    (RunEnded /\ session # "none") => (closes = 1 /\ session = "closed")

\* C6: when run() ends, normally or with an error, no launched unit of work is
\* still pending or running.
C6_RunWaitsForAll ==
    (RunEnded /\ pc = "teardown") => \A u \in DOMAIN tasks : ~Unfinished(tasks[u])

\* C7: every main() that launched its units of work and has ended has logged the
\* elapsed time, whether asyncio.run returned or raised because a unit failed.
C7_ElapsedReported ==
    (MainEnded /\ Launched) => reported

\* C8: run() ends successfully only if every unit of work completed; once a unit
\* of work has failed run() never ends successfully, and what it raises is the
\* failure of the unit that failed first.
C8_FirstFailureSurfaces ==
    /\ runResult.kind = "ok" => \A u \in DOMAIN tasks : tasks[u] = "done"
    /\ failOrder # <<>> => runResult.kind \in {"none", "error"}
    /\ (failOrder # <<>> /\ RunEnded) => runResult = [kind |-> "error", by |-> {failOrder[1]}]
    /\ runResult.kind = "error" => (failOrder # <<>> /\ runResult.by = {failOrder[1]})

\* two units of work failed and main() ended with the failure of the first
C8_Witness ==
    /\ pc = "raised"
    /\ Len(failOrder) >= 2
    /\ runResult.kind = "error"
    /\ \E u \in DOMAIN tasks : tasks[u] = "done"

NoKeyMatches(mapping, hosts) ==
    \A i \in 1..Len(mapping) : \A h \in hosts : ~KeyContains(mapping[i][1], h)

\* some resolved record has no matching key in the credential store that was read
RoutingMiss ==
    /\ pc \notin {"auth", "exited"}
    /\ authfile = "ok"
    /\ \/ NoKeyMatches(auth.mfa, GraphHosts)
       \/ NoKeyMatches(auth.app_auth, GraphHosts)
       \/ NoKeyMatches(auth.app_auth, {"management.azure.com"})
       \/ NoKeyMatches(auth.app_auth, {"api.securitycenter.microsoft.com"})

\* C9: when a resolved record has no matching key, run() raises nothing before
\* the units of work are launched: it can only end with the failure of a unit.
C9_RoutingMissNotEager ==
    RoutingMiss => (runResult.kind \in {"none", "ok", "error"} /\ (RunEnded => Launched))

\* the dumper variable and the class the claim expects for a provider
ExpectedDumper(p) ==
    CASE p = "azure"   -> [var |-> "azure_dumper",  cls |-> "AzureDataDumper"]
      [] p = "m365"    -> [var |-> "m365dumper",    cls |-> "M365DataDumper"]
      [] p = "azuread" -> [var |-> "azureaddumper", cls |-> "AzureAdDataDumper"]
      [] p = "mde"     -> [var |-> "mdedumper",     cls |-> "MDEDataDumper"]

UsersGroupsConfig ==
    ConfOf({<<"azuread", <<"users">>, "true">>, <<"azuread", <<"groups">>, "false">>}, {})

\* C10: the plan holds one unit of work for every enabled (provider, operation)
\* pair, made by that provider's own dumper, and no other; the configuration
\* {azuread: {users: true, groups: false}} without flags gives [(azuread, users)].
C10_PlanIsEnabledPairs ==
    Launched =>
        /\ DOMAIN tasks =
             UNION {{[provider |-> p, dumper |-> ExpectedDumper(p).var,
                      cls |-> IF args.dry_run THEN "DataDumper" ELSE ExpectedDumper(p).cls,
                      op |-> o] : o \in DOMAIN data_calls[p]} : p \in Sections}
        /\ (conf = UsersGroupsConfig /\ NoOverride) =>
              {<<u.provider, u.op>> : u \in DOMAIN tasks} = {<<"azuread", <<"users">> >>}

\* the users/groups configuration was run without flags by the real dumpers
C10_Witness ==
    /\ Launched
    /\ conf = UsersGroupsConfig
    /\ NoOverride
    /\ ~args.dry_run
    /\ DOMAIN tasks = {[provider |-> "azuread", dumper |-> "azureaddumper",
                        cls |-> "AzureAdDataDumper", op |-> <<"users">>]}

\* the enabled (provider, operation) pairs of the matrix
EnabledPairs == UNION {{<<p, o>> : o \in DOMAIN data_calls[p]} : p \in DOMAIN data_calls}

\* C11: with --dry-run, run() constructs no M365, Azure AD, Azure or MDE dumper:
\* the four dumper variables hold the one default collector, and the plan still
\* has one unit of work for every enabled (provider, operation) pair.
C11_DryRunBuildsNoRealDumper ==
    args.dry_run =>
        /\ \A v \in DOMAIN dumpers : dumpers[v].cls \in {"none", "DataDumper"}
        /\ pc \notin {"auth", "exited", "raised", "dirs", "parse", "run", "route",
                      "check_token", "construct"}
             => \A v \in DOMAIN dumpers :
                   dumpers[v] = dumpers.maindumper /\ dumpers[v].cls = "DataDumper"
        /\ Launched =>
             /\ {<<u.provider, u.op>> : u \in DOMAIN tasks} = EnabledPairs
             /\ Cardinality(DOMAIN tasks) = Cardinality(EnabledPairs)
             /\ \A u \in DOMAIN tasks : u.cls = "DataDumper"

\* a dry run launched units of work for all four providers
C11_Witness ==
    /\ args.dry_run
    /\ Launched
    /\ \A p \in Sections : \E u \in DOMAIN tasks : u.provider = p

\* C12: a dry run performs no network call and changes no persisted state, the
\* output-directory checks and the token check included.
C12_DryRunNoSideEffects ==
    args.dry_run => effects = {}

(***************************************************************************)
(* Claims about credential routing (checked under SpecRoute).              *)
(***************************************************************************)
Routed == pc = "check_token"

\* the positions of a mapping whose key names one of the hosts
Hits(mapping, hosts) ==
    {i \in 1..Len(mapping) : \E j \in 1..Len(mapping[i][1]) : mapping[i][1][j] \in hosts}

BothGraphHosts == {"graph.microsoft.com", "graph.microsoft.us"}

\* C13: a delegated or application key with the commercial or the government
\* graph hostname is resolved into the graph slot of its flow-kind, the same slot
\* for both hostnames; without such a key the slot stays empty.
C13_BothGraphHostsResolve ==
    Routed =>
        /\ \A h \in BothGraphHosts :
              /\ Hits(auth.mfa, {h}) # {} =>
                    locals.msft_graph_auth \in
                        {auth.mfa[i][2] : i \in Hits(auth.mfa, BothGraphHosts)}
              /\ Hits(auth.app_auth, {h}) # {} =>
                    locals.msft_graph_app_auth \in
                        {auth.app_auth[i][2] : i \in Hits(auth.app_auth, BothGraphHosts)}
        /\ Hits(auth.mfa, BothGraphHosts) = {} => locals.msft_graph_auth = <<"{}">>
        /\ Hits(auth.app_auth, BothGraphHosts) = {} => locals.msft_graph_app_auth = <<"{}">>

\* a store with only the government key as delegated and only the commercial
\* key as application credential was routed
C13_Witness ==
    /\ Routed
    /\ Hits(auth.mfa, {"graph.microsoft.us"}) # {}
    /\ Hits(auth.mfa, {"graph.microsoft.com"}) = {}
    /\ Hits(auth.app_auth, {"graph.microsoft.com"}) # {}
    /\ Hits(auth.app_auth, {"graph.microsoft.us"}) = {}
    /\ locals.msft_graph_auth = <<"mfa">> \o KeyGraphUs
    /\ locals.msft_graph_app_auth = <<"app_auth">> \o KeyGraphCom

Last(S) == CHOOSE i \in S : \A j \in S : j <= i

\* the slot a mapping and its hosts must fill: the record of the last hit
LastHitIs(mapping, hosts, slot) ==
    Hits(mapping, hosts) # {} => slot = mapping[Last(Hits(mapping, hosts))][2]

\* C17: when several keys of a mapping match the same slot, the slot holds the
\* record of the last matching key in scan order, whatever non-matching keys
\* follow it.
C17_LastMatchWins ==
    Routed =>
        /\ LastHitIs(auth.mfa, BothGraphHosts, locals.msft_graph_auth)
        /\ LastHitIs(auth.app_auth, BothGraphHosts, locals.msft_graph_app_auth)
        /\ LastHitIs(auth.app_auth, {"management.azure.com"}, locals.mgmt_app_auth)
        /\ LastHitIs(auth.app_auth, {"api.securitycenter.microsoft.com"},
                     locals.msft_security_center_auth)

\* two management keys were scanned, then a key of another audience
C17_Witness ==
    /\ Routed
    /\ Len(auth.app_auth) = 3
    /\ Hits(auth.app_auth, {"management.azure.com"}) = {1, 2}
    /\ locals.mgmt_app_auth = auth.app_auth[2][2]
    /\ locals.mgmt_app_auth # auth.app_auth[1][2]

(***************************************************************************)
(* Claims about the start of main() (checked under Spec).                  *)
(***************************************************************************)
\* C14: with a credential file that is missing, unreadable or not JSON, main()
\* ends at the read: the configuration is never parsed, no session and no
\* dumper is built and no unit of work is created, let alone started.
C14_AuthFailureStopsMain ==
    authfile # "ok" =>
        /\ pc \in {"auth", "exited", "raised"}
        /\ data_calls = NoCalls
        /\ session = "none"
        /\ dumpers = NoDumpers
        /\ tasks = NoTasks
        /\ runResult = NoResult

\* a file that is not JSON was read and main() re-raised
C14_Witness == authfile = "malformed" /\ pc = "raised" /\ tasks = NoTasks

(***************************************************************************)
(* Claims about malformed configurations (checked under SpecMatrix).       *)
(***************************************************************************)
BooleanLike == {"true", "True", "TRUE", "false", "False", "FALSE", "yes", "Yes"}

\* a section that is missing, or holds a value that is no boolean-like string
Offending(s) ==
    \/ ~conf[s].exists
    \/ \E k \in DOMAIN conf[s].items : conf[s].items[k] \notin BooleanLike

\* C15 as stated: parse_config never aborts on a malformed configuration, and
\* a section that is missing or holds a value that is not boolean-like has an
\* empty enabled-set before the overrides, while the other sections are built.
C15_MalformedSectionIsEmpty ==
    /\ pc # "raised"
    /\ pc = "run" =>
          \A o \in Overrides :
              (Offending(o.section) /\ ~args[o.flag]) => DOMAIN data_calls[o.section] = {}

(***************************************************************************)
(* Claims about providers nothing enables (checked under Spec).            *)
(***************************************************************************)
\* parse_config has returned
AfterParse ==
    /\ pc \notin {"auth", "dirs", "parse", "exited"}
    /\ pc = "raised" => runResult.kind # "none"

\* the providers neither the configuration nor a flag names
Unnamed == {o \in Overrides : DOMAIN conf[o.section].items = {} /\ ~args[o.flag]}

\* C16: after parse_config the matrix has an entry for each of azure, m365,
\* azuread and mde; a provider neither the configuration nor a flag names has an
\* empty entry, no unit of work is made for it and no KeyError is raised when
\* the plan is assembled.
C16_EveryProviderHasEntry ==
    AfterParse =>
        /\ DOMAIN data_calls = {"azure", "m365", "azuread", "mde"}
        /\ \A o \in Unnamed :
              /\ DOMAIN data_calls[o.section] = {}
              /\ \A u \in DOMAIN tasks : u.provider # o.section
        /\ runResult.kind # "KeyError"

\* a run whose configuration has no azuread and no mde section has ended well,
\* with units of work of the other providers
C16_Witness ==
    /\ pc = "report"
    /\ runResult.kind = "ok"
    /\ ~conf["azuread"].exists /\ ~args.ad
    /\ ~conf["mde"].exists /\ ~args.mde
    /\ \E u \in DOMAIN tasks : u.provider = "azure"
    /\ \A u \in DOMAIN tasks : u.provider \notin {"azuread", "mde"}

(***************************************************************************)
(* Claims about the validity check of credentials (checked under Spec).    *)
(***************************************************************************)
\* how many times a record went through check_token
RECURSIVE Checks(_)
Checks(r) == IF Len(r) > 0 /\ r[1] = "check_token" THEN 1 + Checks(Tail(r)) ELSE 0

\* the records of a mapping of the store, and the default {}
StoreRecords(mapping) == {mapping[i][2] : i \in 1..Len(mapping)} \cup {<<"{}">>}

BeforeCheck == pc \in {"auth", "dirs", "parse", "run", "route", "check_token"}

\* C18: only the delegated graph record goes through check_token, once per run
\* and before any dumper is constructed; the application graph, management and
\* security-center records are in the dumpers as the store holds them.
C18_OnlyDelegatedGraphChecked ==
    /\ BeforeCheck =>
          /\ dumpers = NoDumpers
          /\ \A v \in DOMAIN locals : Checks(locals[v]) = 0
    /\ pc \in {"construct", "enter", "gather", "teardown", "report"} =>
          /\ Checks(locals.msft_graph_auth) = 1
          /\ Tail(locals.msft_graph_auth) \in StoreRecords(auth.mfa)
          /\ \A v \in DOMAIN locals \ {"msft_graph_auth"} : Checks(locals[v]) = 0
    /\ \A d \in DOMAIN dumpers :
          dumpers[d] # NoDumper =>
              LET creds == dumpers[d].creds
              IN  IF dumpers[d].cls = "AzureDataDumper"
                  THEN creds[1] \in StoreRecords(auth.app_auth)
                  ELSE /\ Checks(creds[1]) = 1
                       /\ Tail(creds[1]) \in StoreRecords(auth.mfa)
                       /\ creds[2] \in StoreRecords(auth.app_auth)

\* the real dumpers were built from the full store: the delegated graph record
\* checked once, the three application records as stored
C18_Witness ==
    /\ pc = "gather"
    /\ ~args.dry_run
    /\ auth = FullStore
    /\ dumpers["azureaddumper"].creds = << <<"check_token", "mfa_graph">>, <<"app_graph">> >>
    /\ dumpers["azure_dumper"].creds = << <<"app_mgmt">> >>
    /\ dumpers["mdedumper"].creds[2] = <<"app_security">>

(***************************************************************************)
(* Claims about the override step (checked under SpecMatrix).              *)
(***************************************************************************)
\* C19: for a provider whose override flag is set, the enabled-set is the union
\* of the names its section marks true and its catalog: no name the
\* configuration enabled is removed, and every stored value is true.
C19_OverrideOnlyAdds ==
    pc = "run" =>
        \A o \in Overrides :
            args[o.flag] =>
                /\ DOMAIN data_calls[o.section] = TruthyNames(o.section) \cup CatalogItems(o.cls)
                /\ TruthyNames(o.section) \subseteq DOMAIN data_calls[o.section]
                /\ \A k \in DOMAIN data_calls[o.section] : data_calls[o.section][k] = TRUE

\* parse_config has run with --ad on a section that marks true a name the
\* AzureAD dumper has no method for; the name is kept next to the catalog
C19_Witness ==
    /\ pc = "run"
    /\ args.ad
    /\ <<"unknown">> \in TruthyNames("azuread")
    /\ DOMAIN data_calls["azuread"] = {<<"unknown">>, <<"users">>, <<"groups">>}

(***************************************************************************)
(* Claims about repeated calls of parse_config (checked under SpecReparse).*)
(***************************************************************************)
\* the names the configuration and the flags of the last call enable
EnabledByLastCall(o) ==
    TruthyNames(o.section) \cup (IF args[o.flag] THEN CatalogItems(o.cls) ELSE {})

\* C20: after any sequence of parse_config calls, the global matrix holds for
\* each of the four providers exactly what the configuration and the flags of
\* the last call enable; a name an earlier call enabled and the last call does
\* not is gone.
C20_LastCallDecides ==
    pc = "run" =>
        /\ DOMAIN data_calls = {"azure", "m365", "azuread", "mde"}
        /\ \A o \in Overrides :
              /\ DOMAIN data_calls[o.section] = EnabledByLastCall(o)
              /\ o.section \in DOMAIN before =>
                    \A k \in DOMAIN before[o.section] \ EnabledByLastCall(o) :
                        k \notin DOMAIN data_calls[o.section]

\* a later call has returned and dropped a name the call before had enabled
C20_Witness ==
    /\ pc = "run"
    /\ \E s \in DOMAIN before : \E k \in DOMAIN before[s] : k \notin DOMAIN data_calls[s]

====
